---- MODULE Spec2Model ----
(***************************************************************************)
(* plbacktrace.py: a gdb session driven through three concurrent           *)
(* activities -- the main state machine and the two reader threads that    *)
(* feed gdb's stdout and stderr into one Queue.                            *)
(*                                                                         *)
(* Text is modelled as a sequence of one-character strings, so that the    *)
(* prompt stripping, the three regular expressions and the formatting of   *)
(* commands and records are computed character by character.               *)
(***************************************************************************)
EXTENDS Integers, Sequences, FiniteSets, TLC

----------------------------------------------------------------------------
(* Bounds of the model *)

\* Longest gdb stdout transcript drawn from all sequences over Lines.
MaxOutLines == 2

\* Longest gdb stderr transcript.
MaxErrLines == 2

----------------------------------------------------------------------------
(* Text primitives (Python str operations and the re module) *)

Digits == {"0","1","2","3","4","5","6","7","8","9"}

HexDigits == Digits \cup {"a","b","c","d","e","f"}

\* The characters str.strip() removes.
Whitespace == {" ", "\t", "\n", "\r"}

\* s[i:] of Python for a 0-based start i >= 0.
Slice(s, i) == SubSeq(s, i + 1, Len(s))

\* s[0:n] of Python: at most the first n characters.
Prefix(s, n) == SubSeq(s, 1, IF n < Len(s) THEN n ELSE Len(s))

\* str.strip(): leading and trailing whitespace removed.
strip(s) ==
    LET inner == {i \in 1..Len(s) : s[i] \notin Whitespace}
    IN  IF inner = {} THEN <<>>
        ELSE LET lo == CHOOSE i \in inner : \A j \in inner : i <= j
                 hi == CHOOSE i \in inner : \A j \in inner : i >= j
             IN  SubSeq(s, lo, hi)

\* str.find(' '): 0-based index of the first blank, -1 when there is none.
find(s, c) ==
    LET hits == {i \in 1..Len(s) : s[i] = c}
    IN  IF hits = {} THEN -1
        ELSE (CHOOSE i \in hits : \A j \in hits : i <= j) - 1

\* Greedy run of a character class: the last position j >= i - 1 such that
\* s[i..j] are all in C.  Every class of rex1..rex3 is followed by a
\* character outside the class, so the greedy run is the only possible match.
Span(s, i, C) ==
    CHOOSE j \in (i - 1)..Len(s) :
        /\ \A k \in i..j : s[k] \in C
        /\ (j = Len(s) \/ s[j + 1] \notin C)

\* The same for a negated class [^...]: the run of characters not in C.
SpanNot(s, i, C) ==
    CHOOSE j \in (i - 1)..Len(s) :
        /\ \A k \in i..j : s[k] \notin C
        /\ (j = Len(s) \/ s[j + 1] \in C)

\* Whether the literal lit occurs in s at position i.
At(s, i, lit) ==
    /\ i + Len(lit) - 1 <= Len(s)
    /\ SubSeq(s, i, i + Len(lit) - 1) = lit

\* A failed match (None of re.match).
NoMatch == <<>>

\* rex1 = "#([0-9]+) +0x[0-9a-f]+ in ([^ ]+) " matched at the start of s:
\* NoMatch, or the pair of groups <<index, name>>.
rex1(s) ==
    IF ~At(s, 1, <<"#">>) THEN NoMatch ELSE
    LET d == Span(s, 2, Digits) IN
    IF d < 2 THEN NoMatch ELSE
    LET b == Span(s, d + 1, {" "}) IN
    IF b < d + 1 \/ ~At(s, b + 1, <<"0","x">>) THEN NoMatch ELSE
    LET h == Span(s, b + 3, HexDigits) IN
    IF h < b + 3 \/ ~At(s, h + 1, <<" ","i","n"," ">>) THEN NoMatch ELSE
    LET n == SpanNot(s, h + 5, {" "}) IN
    IF n < h + 5 \/ ~At(s, n + 1, <<" ">>) THEN NoMatch
    ELSE <<SubSeq(s, 2, d), SubSeq(s, h + 5, n)>>

\* rex2 = "#([0-9]+) +([^ ]+) " matched at the start of s.
rex2(s) ==
    IF ~At(s, 1, <<"#">>) THEN NoMatch ELSE
    LET d == Span(s, 2, Digits) IN
    IF d < 2 THEN NoMatch ELSE
    LET b == Span(s, d + 1, {" "}) IN
    IF b < d + 1 THEN NoMatch ELSE
    LET n == SpanNot(s, b + 1, {" "}) IN
    IF n < b + 1 \/ ~At(s, n + 1, <<" ">>) THEN NoMatch
    ELSE <<SubSeq(s, 2, d), SubSeq(s, b + 1, n)>>

\* rex3 = "\$[0-9]+ = (.*)" matched at the start of s: NoMatch, or the
\* one-element tuple of groups <<value>>.
rex3(s) ==
    IF ~At(s, 1, <<"$">>) THEN NoMatch ELSE
    LET d == Span(s, 2, Digits) IN
    IF d < 2 \/ ~At(s, d + 1, <<" ","="," ">>) THEN NoMatch
    ELSE <<SubSeq(s, d + 4, SpanNot(s, d + 4, {"\n"}))>>

\* Decimal digits of a natural number ("%d").
DigitChar == <<"0","1","2","3","4","5","6","7","8","9">>

RECURSIVE FormatInt(_)
FormatInt(n) ==
    IF n < 10 THEN <<DigitChar[n + 1]>>
    ELSE FormatInt(n \div 10) \o <<DigitChar[(n % 10) + 1]>>

\* int() of a string of decimal digits.
RECURSIVE ParseInt(_)
ParseInt(s) ==
    IF s = <<>> THEN 0
    ELSE LET c == s[Len(s)]
             v == CHOOSE k \in 0..9 : DigitChar[k + 1] = c
         IN  10 * ParseInt(SubSeq(s, 1, Len(s) - 1)) + v

----------------------------------------------------------------------------
(* Literal texts of the program *)

\* The text '(gdb)'
TxtPrompt ==
    <<"(","g","d","b",")">>

\* The text 'attach '
TxtAttach ==
    <<"a","t","t","a","c","h"," ">>

\* The text 'bt\n'
TxtBt ==
    <<"b","t","\n">>

\* The text 'select-frame '
TxtSelectFrame ==
    <<"s","e","l","e","c","t","-","f","r","a","m","e"," ">>

\* The text '\n'
TxtNewline ==
    <<"\n">>

\* The text 'p stmt->lineno\n'
TxtPrintLineno ==
    <<"p"," ","s","t","m","t","-",">","l","i","n","e","n","o","\n">>

\* The text 'l\n'
TxtList ==
    <<"l","\n">>

\* The text 'p func->fn_oid\n'
TxtPrintOid ==
    <<"p"," ","f","u","n","c","-",">","f","n","_","o","i","d","\n">>

\* The text 'p func->fn_signature\n'
TxtPrintSignature ==
    <<"p"," ","f","u","n","c","-",">","f","n","_","s","i","g","n","a","t","u","r","e","\n">>

\* The text 'quit\n'
TxtQuit ==
    <<"q","u","i","t","\n">>

\* The text 'exec_stmt'
NameExecStmt ==
    <<"e","x","e","c","_","s","t","m","t">>

\* The text 'plpgsql_exec_function'
NameExecFunction ==
    <<"p","l","p","g","s","q","l","_","e","x","e","c","_","f","u","n","c","t","i","o","n">>

\* The text 'plpgsql_exec_trigger'
NameExecTrigger ==
    <<"p","l","p","g","s","q","l","_","e","x","e","c","_","t","r","i","g","g","e","r">>

\* The text 'main'
NameMain ==
    <<"m","a","i","n">>

\* The text 'fn_oid='
TxtFnOid ==
    <<"f","n","_","o","i","d","=">>

\* The text ' lineno='
TxtLineno ==
    <<" ","l","i","n","e","n","o","=">>

\* The text ' func='
TxtFunc ==
    <<" ","f","u","n","c","=">>

----------------------------------------------------------------------------
(* Lines gdb may write to its stdout *)

\* The text '#1 0x0a in exec_stmt (e)\n'
LnExecStmt ==
    <<"#","1"," ","0","x","0","a"," ","i","n"," ","e","x","e","c","_","s","t","m","t"," ","(","e",")","\n">>

\* The text '#2 plpgsql_exec_function (f)\n'
LnExecFunction ==
    <<"#","2"," ","p","l","p","g","s","q","l","_","e","x","e","c","_","f","u","n","c","t","i","o","n"," ","(","f",")","\n">>

\* The text '#2 0x0c in plpgsql_exec_trigger (f)\n'
LnExecTrigger ==
    <<"#","2"," ","0","x","0","c"," ","i","n"," ","p","l","p","g","s","q","l","_","e","x","e","c","_","t","r","i","g","g","e","r"," ","(","f",")","\n">>

\* The text '#3 main ()\n'
LnMain ==
    <<"#","3"," ","m","a","i","n"," ","(",")","\n">>

\* The text '#0 0x0b in poll ()\n'
LnOther ==
    <<"#","0"," ","0","x","0","b"," ","i","n"," ","p","o","l","l"," ","(",")","\n">>

\* The text '$1 = 7\n'
LnLineno ==
    <<"$","1"," ","="," ","7","\n">>

\* The text '$2 = 16390\n'
LnOid ==
    <<"$","2"," ","="," ","1","6","3","9","0","\n">>

\* The text '$3 = FUNCTION foo(integer)\n'
LnSignature ==
    <<"$","3"," ","="," ","F","U","N","C","T","I","O","N"," ","f","o","o","(","i","n","t","e","g","e","r",")","\n">>

\* The text '(gdb) \n'
LnPrompt ==
    <<"(","g","d","b",")"," ","\n">>

\* The text '(gdb) (gdb) $4 = 9\n'
LnPromptResult ==
    <<"(","g","d","b",")"," ","(","g","d","b",")"," ","$","4"," ","="," ","9","\n">>

\* The text 'Attaching to process 42\n'
LnBanner ==
    <<"A","t","t","a","c","h","i","n","g"," ","t","o"," ","p","r","o","c","e","s","s"," ","4","2","\n">>
\* Every line gdb's stdout transcript is drawn from.
Lines ==
    {LnExecStmt, LnExecFunction, LnMain, LnOther, LnLineno, LnOid,
     LnSignature, LnPrompt, LnPromptResult}

\* One PL/pgSQL call level on top of main(), as a backtrace with the answers
\* to the print commands interleaved.
OneLevel ==
    <<LnExecStmt, LnLineno, LnExecFunction, LnOid, LnSignature,
      LnExecStmt, LnMain>>

\* The same session cut off after the second of the three values.
OneLevelCut ==
    <<LnExecStmt, LnLineno, LnExecFunction, LnOid>>

\* Two call levels, the outer one a trigger called from a statement of an
\* outer block, with gdb chatter in between.
TwoLevels ==
    <<LnBanner, LnOther, LnExecStmt, LnExecStmt, LnExecFunction, LnExecStmt,
      LnExecTrigger, LnExecStmt, LnMain, LnPromptResult, LnOid, LnPrompt,
      LnSignature, LnLineno, LnOid, LnBanner, LnOid>>

\* The text 'fn_oid=16390 lineno=7 func=foo(integer)\n'
ScenarioRecord ==
    <<"f","n","_","o","i","d","=","1","6","3","9","0"," ","l","i","n","e","n","o","=","7"," ","f","u","n","c","=","f","o","o","(","i","n","t","e","g","e","r",")","\n">>

\* The text '$5 = a\tb c\n': a value with a tab before its first blank.
LnTabSignature ==
    <<"$","5"," ","="," ","a","\t","b"," ","c","\n">>

\* One call level whose signature holds a tab.
TabLevel == <<LnLineno, LnOid, LnTabSignature>>

\* The text ' (gdb) #3 main ()\n': a blank in front of the prompt.
LnBlankPromptMain ==
    <<" ","(","g","d","b",")"," ","#","3"," ","m","a","i","n"," ","(",")","\n">>

\* A session whose frame of main() follows a prompt with a blank in front.
BlankPrompt == <<LnExecStmt, LnBlankPromptMain>>

\* A session whose values arrive between the stack frame lines.
Interleaved ==
    <<LnExecStmt, LnLineno, LnOther, LnExecFunction, LnOid, LnExecStmt,
      LnSignature>>

Scenarios ==
    {OneLevel, OneLevelCut, TwoLevels, TabLevel, BlankPrompt, Interleaved}

\* The lines that answer a print command.
ValueLines == {LnLineno, LnOid, LnSignature, LnPromptResult}

\* The three answers of one call level, in every combination.
ValueTriples == [1..3 -> ValueLines]

SeqsUpTo(S, n) == UNION {[1..k -> S] : k \in 0..n}

\* The transcripts gdb may write to its stdout.
OutTranscripts ==
    SeqsUpTo(Lines, MaxOutLines) \cup ValueTriples \cup Scenarios

\* Every line that occurs in a transcript.
AllLines == UNION {{t[i] : i \in 1..Len(t)} : t \in OutTranscripts}

\* Diagnostic lines of gdb; they are relayed and never parsed.
ErrLine(i) == IF i = 1 THEN "ptrace: No such process.\n" ELSE "warning: x\n"

\* The transcripts gdb may write to its stderr.
ErrTranscripts == {[i \in 1..n |-> ErrLine(i)] : n \in 0..MaxErrLines}

\* sys.argv: the program name followed by the arguments.
ProgName == <<"p">>

Argvs ==
    {<<ProgName>>, <<ProgName, <<"4","2">>>>,
     <<ProgName, <<"4","2">>, <<"7">>>>}

UsageText == "usage: plstack.py BACKENDPID\n"

----------------------------------------------------------------------------
(* State *)

VARIABLES
    argv,        \* sys.argv
    pc,          \* main(): "start", "loop" (blocked in gdbq.get()), "done"
    retval,      \* what main() returned: "" (not yet), "2" or "None"
    gdb,         \* whether the gdb subprocess was spawned
    stdin,       \* the texts written to gdb.stdin, in order
    gdbq,        \* the Queue shared by the three threads
    taken,       \* history: the messages gdbq.get() returned, in order
    pl_frame,    \* values collected for the current call level
    need_lno,    \* whether the next exec_stmt frame asks for a lineno
    stdout,      \* the lines printed by main()
    stderr,      \* the texts written to sys.stderr
    fd_in,       \* gdb's stdout: the transcript gdb writes to it
    fd_in_pos,   \* number of lines of fd_in read so far
    fd_in_eof,   \* gdb closed its stdout
    fd_err,      \* gdb's stderr: the transcript gdb writes to it
    fd_err_pos,  \* number of lines of fd_err read so far
    fd_err_eof,  \* gdb closed its stderr
    rdrpc,       \* gdb_reader.run: "unstarted", "readline", "done"
    errpc        \* gdb_stderr.run: "unstarted", "first", "next", "done"

vars ==
    <<argv, pc, retval, gdb, stdin, gdbq, taken, pl_frame, need_lno, stdout,
      stderr, fd_in, fd_in_pos, fd_in_eof, fd_err, fd_err_pos, fd_err_eof,
      rdrpc, errpc>>

mainVars == <<argv, pc, retval, gdb, stdin, taken, pl_frame, need_lno, stdout>>

\* The state the loop of main() works on.
LoopState ==
    [pl_frame |-> pl_frame, need_lno |-> need_lno, stdout |-> stdout,
     stdin |-> stdin]

\* A line of gdb's stdout as queued by gdb_reader.
LineMsg(text) == [none |-> FALSE, text |-> text, src |-> "stdout"]

\* The None both readers queue.  Python's None carries no origin; src records
\* which thread queued it and is never read by main().
NoneMsg(src) == [none |-> TRUE, text |-> <<>>, src |-> src]

----------------------------------------------------------------------------
(* main(): the pure parts of one loop iteration *)

\* Lines 90-92: remove all leading (gdb) prompts, then strip.
RECURSIVE StripPrompts(_)
StripPrompts(line) ==
    IF Prefix(line, 5) = TxtPrompt
    THEN StripPrompts(strip(Slice(line, 5)))
    ELSE strip(line)

\* Lines 104-106: rex1, and rex2 when rex1 fails.
FrameMatch(line) ==
    LET m == rex1(line)
    IN  IF m = NoMatch THEN rex2(line) ELSE m

\* fn_signature giving nothing for a value without a blank.
fn_signature_or_empty(raw) ==
    IF find(raw, " ") = -1 THEN <<>> ELSE Slice(raw, find(raw, " ") + 1)

\* Line 128: the signature from the first blank on (find gives -1 when there
\* is no blank, and then the whole value is kept).
fn_signature(raw) == Slice(raw, find(raw, " ") + 1)

\* FormatRecord with the first two arguments of the format exchanged.
FormatRecordSwapped(pl) ==
    TxtFnOid \o pl[1] \o TxtLineno \o pl[2] \o TxtFunc \o fn_signature(pl[3])
        \o TxtNewline

\* Lines 129-130: the printed record; print ends it with a newline.
FormatRecord(pl) ==
    TxtFnOid \o pl[2] \o TxtLineno \o pl[1] \o TxtFunc \o fn_signature(pl[3])
        \o TxtNewline

\* Line 126: the value is appended to pl_frame.
Collect(pl, value) == Append(pl, value)

\* Lines 127-131: what is printed once the value has been appended.
Printed(pl) == IF Len(pl) = 3 THEN <<FormatRecord(pl)>> ELSE <<>>

\* Remaining without the reset of line 131.
RemainingAll(pl) == pl

\* Remaining with the reset of line 131 keeping the last value.
RemainingKeepsLast(pl) == IF Len(pl) = 3 THEN <<pl[3]>> ELSE pl

\* Lines 127-131: pl_frame at the end of the iteration.
Remaining(pl) == IF Len(pl) = 3 THEN <<>> ELSE pl

\* FrameCommands with the test of need_lno of line 142 left out.
FrameCommandsAlwaysLineno(m, need) ==
    IF m[2] = NameExecStmt
    THEN <<TxtSelectFrame \o m[1] \o TxtNewline, TxtPrintLineno>>
    ELSE IF m[2] \in {NameExecFunction, NameExecTrigger}
    THEN <<TxtSelectFrame \o m[1] \o TxtNewline, TxtList, TxtPrintOid,
           TxtPrintSignature>>
    ELSE IF m[2] = NameMain
    THEN <<TxtQuit>>
    ELSE <<>>

\* Lines 137-165: the texts written to gdb.stdin for a stack frame line with
\* groups m = <<index, name>>.
FrameCommands(m, need) ==
    IF m[2] = NameExecStmt
    THEN IF need
         THEN <<TxtSelectFrame \o m[1] \o TxtNewline, TxtPrintLineno>>
         ELSE <<>>
    ELSE IF m[2] \in {NameExecFunction, NameExecTrigger}
    THEN <<TxtSelectFrame \o m[1] \o TxtNewline, TxtList, TxtPrintOid,
           TxtPrintSignature>>
    ELSE IF m[2] = NameMain
    THEN <<TxtQuit>>
    ELSE <<>>

\* FrameNeedLno with the frame of main() asking for a lineno again.
FrameNeedLnoResetAtMain(m, need) ==
    IF m[2] = NameExecStmt
    THEN IF need THEN FALSE ELSE need
    ELSE IF m[2] \in {NameExecFunction, NameExecTrigger, NameMain}
    THEN TRUE
    ELSE need

\* Lines 137-157: need_lno after a stack frame line.
FrameNeedLno(m, need) ==
    IF m[2] = NameExecStmt
    THEN IF need THEN FALSE ELSE need
    ELSE IF m[2] \in {NameExecFunction, NameExecTrigger}
    THEN TRUE
    ELSE need

\* Lines 90-124 on one line of gdb: the line without prompts, the groups of
\* the stack frame match (rex1, else rex2) and the groups of rex3.
Match(text) ==
    LET line == StripPrompts(text)
    IN  [line |-> line, frame |-> FrameMatch(line), value |-> rex3(line)]

\* Match, worked out once for every line gdb may write.
Matches == [text \in AllLines |-> Match(text)]

\* LoopBody with the test of line 125 left out: whatever is no stack frame
\* is collected as a value.
LoopBodyCollectsAll(st, text) ==
    LET m == Matches[text].frame
    IN  IF m = NoMatch
        THEN LET pl == Collect(st.pl_frame, Matches[text].line)
             IN  [st EXCEPT !.stdout = @ \o Printed(pl),
                            !.pl_frame = Remaining(pl)]
        ELSE [st EXCEPT !.stdin = @ \o FrameCommands(m, st.need_lno),
                        !.need_lno = FrameNeedLno(m, st.need_lno)]

\* LoopBody where the value that completes a record also sets need_lno.
LoopBodyRecordSetsNeedLno(st, text) ==
    LET m == Matches[text].frame
    IN  IF m = NoMatch
        THEN LET v == Matches[text].value
             IN  IF v # NoMatch
                 THEN LET pl == Collect(st.pl_frame, v[1])
                      IN  [st EXCEPT !.stdout = @ \o Printed(pl),
                                     !.pl_frame = Remaining(pl),
                                     !.need_lno = @ \/ Len(pl) = 3]
                 ELSE st
        ELSE [st EXCEPT !.stdin = @ \o FrameCommands(m, st.need_lno),
                        !.need_lno = FrameNeedLno(m, st.need_lno)]

\* Lines 87-170: one iteration of the loop on the text of a line, as a
\* function of the loop's state st = [pl_frame, need_lno, stdout, stdin].
LoopBody(st, text) ==
    LET m == Matches[text].frame
    IN  IF m = NoMatch
        THEN LET v == Matches[text].value
             IN  IF v # NoMatch
                 THEN LET pl == Collect(st.pl_frame, v[1])
                      IN  [st EXCEPT !.stdout = @ \o Printed(pl),
                                     !.pl_frame = Remaining(pl)]
                 ELSE st
        ELSE [st EXCEPT !.stdin = @ \o FrameCommands(m, st.need_lno),
                        !.need_lno = FrameNeedLno(m, st.need_lno)]

\* Lines 221-222: sys.exit(main()) turns what main() returned into the exit
\* status; None is status 0.
ExitStatus(rv) == IF rv = "2" THEN 2 ELSE 0

\* UsageError that only notices a missing argument.
UsageErrorTooFew(av) == Len(av) < 2

\* Line 25: the argument count is wrong.
UsageError(av) == Len(av) # 2

----------------------------------------------------------------------------
(* Initial state: the interpreter has loaded the module *)

Init ==
    /\ argv \in Argvs
    /\ pc = "start"
    /\ retval = ""
    /\ gdb = FALSE
    /\ stdin = <<>>
    /\ gdbq = <<>>
    /\ taken = <<>>
    /\ pl_frame = <<>>
    /\ need_lno = TRUE
    /\ stdout = <<>>
    /\ stderr = <<>>
    /\ fd_in = <<>>
    /\ fd_in_pos = 0
    /\ fd_in_eof = FALSE
    /\ fd_err = <<>>
    /\ fd_err_pos = 0
    /\ fd_err_eof = FALSE
    /\ rdrpc = "unstarted"
    /\ errpc = "unstarted"

----------------------------------------------------------------------------
(* main() *)

\* Lines 25-27: wrong argument count.
main_usage ==
    /\ pc = "start"
    /\ UsageError(argv)
    /\ stderr' = Append(stderr, UsageText)
    /\ retval' = "2"
    /\ pc' = "done"
    /\ UNCHANGED <<argv, gdb, stdin, gdbq, taken, pl_frame, need_lno, stdout,
                   fd_in, fd_in_pos, fd_in_eof, fd_err, fd_err_pos,
                   fd_err_eof, rdrpc, errpc>>

\* Lines 32-77: gdb is spawned (what it is going to write is its own
\* business), both readers are started, attach and bt are written.
main_start ==
    /\ pc = "start"
    /\ ~UsageError(argv)
    /\ LET be_pid == ParseInt(argv[2])
       IN  stdin' = stdin \o <<TxtAttach \o FormatInt(be_pid) \o TxtNewline,
                                TxtBt>>
    /\ gdb' = TRUE
    /\ \E t \in OutTranscripts : fd_in' = t
    /\ \E t \in ErrTranscripts : fd_err' = t
    /\ rdrpc' = "readline"
    /\ errpc' = "first"
    /\ pl_frame' = <<>>
    /\ need_lno' = TRUE
    /\ pc' = "loop"
    /\ UNCHANGED <<argv, retval, gdbq, taken, stdout, stderr, fd_in_pos,
                   fd_in_eof, fd_err_pos, fd_err_eof>>

\* main_break printing what pl_frame holds before it leaves the loop.
main_break_flushes ==
    /\ pc = "loop"
    /\ gdbq # <<>>
    /\ Head(gdbq).none
    /\ gdbq' = Tail(gdbq)
    /\ taken' = Append(taken, Head(gdbq))
    /\ stdout' = IF pl_frame = <<>> THEN stdout ELSE Append(stdout, pl_frame[1])
    /\ retval' = "None"
    /\ pc' = "done"
    /\ UNCHANGED <<argv, gdb, stdin, pl_frame, need_lno, stderr, fd_in,
                   fd_in_pos, fd_in_eof, fd_err, fd_err_pos, fd_err_eof,
                   rdrpc, errpc>>

\* main_break with continue in place of break.
main_break_continues ==
    /\ pc = "loop"
    /\ gdbq # <<>>
    /\ Head(gdbq).none
    /\ gdbq' = Tail(gdbq)
    /\ taken' = Append(taken, Head(gdbq))
    /\ UNCHANGED <<argv, pc, retval, gdb, stdin, pl_frame, need_lno, stdout,
                   stderr, fd_in, fd_in_pos, fd_in_eof, fd_err, fd_err_pos,
                   fd_err_eof, rdrpc, errpc>>

\* Lines 83-85: gdbq.get() returned None.
main_break ==
    /\ pc = "loop"
    /\ gdbq # <<>>
    /\ Head(gdbq).none
    /\ gdbq' = Tail(gdbq)
    /\ taken' = Append(taken, Head(gdbq))
    /\ retval' = "None"
    /\ pc' = "done"
    /\ UNCHANGED <<argv, gdb, stdin, pl_frame, need_lno, stdout, stderr,
                   fd_in, fd_in_pos, fd_in_eof, fd_err, fd_err_pos,
                   fd_err_eof, rdrpc, errpc>>

\* Lines 83-170: gdbq.get() returned a line of gdb's stdout; one iteration
\* of the loop on it.  The writes to gdb.stdin are taken to succeed: the pipe
\* accepts the short command lines without blocking or failing.
main_line ==
    /\ pc = "loop"
    /\ gdbq # <<>>
    /\ ~Head(gdbq).none
    /\ LET st == LoopBody(LoopState, Head(gdbq).text)
       IN  /\ pl_frame' = st.pl_frame
           /\ need_lno' = st.need_lno
           /\ stdout' = st.stdout
           /\ stdin' = st.stdin
    /\ gdbq' = Tail(gdbq)
    /\ taken' = Append(taken, Head(gdbq))
    /\ UNCHANGED <<argv, pc, retval, gdb, stderr, fd_in, fd_in_pos,
                   fd_in_eof, fd_err, fd_err_pos, fd_err_eof, rdrpc, errpc>>

----------------------------------------------------------------------------
(* gdb_reader.run *)

\* gdb_reader_line putting the line at the head of the Queue.
gdb_reader_line_lifo ==
    /\ rdrpc = "readline"
    /\ fd_in_pos < Len(fd_in)
    /\ gdbq' = <<LineMsg(fd_in[fd_in_pos + 1])>> \o gdbq
    /\ fd_in_pos' = fd_in_pos + 1
    /\ UNCHANGED <<mainVars, stderr, fd_in, fd_in_eof, fd_err, fd_err_pos,
                   fd_err_eof, rdrpc, errpc>>

\* Lines 213-216: readline() returned a line; it is queued.
\* gdb_reader_line on a Queue that holds at most two messages: the put of
\* line 215 waits while the Queue is full.
gdb_reader_line_bounded ==
    /\ rdrpc = "readline"
    /\ fd_in_pos < Len(fd_in)
    /\ Len(gdbq) < 2
    /\ gdbq' = Append(gdbq, LineMsg(fd_in[fd_in_pos + 1]))
    /\ fd_in_pos' = fd_in_pos + 1
    /\ UNCHANGED <<mainVars, stderr, fd_in, fd_in_eof, fd_err, fd_err_pos,
                   fd_err_eof, rdrpc, errpc>>

gdb_reader_line ==
    /\ rdrpc = "readline"
    /\ fd_in_pos < Len(fd_in)
    /\ gdbq' = Append(gdbq, LineMsg(fd_in[fd_in_pos + 1]))
    /\ fd_in_pos' = fd_in_pos + 1
    /\ UNCHANGED <<mainVars, stderr, fd_in, fd_in_eof, fd_err, fd_err_pos,
                   fd_err_eof, rdrpc, errpc>>

\* gdb_reader_eof without the put of line 218.
gdb_reader_eof_silent ==
    /\ rdrpc = "readline"
    /\ fd_in_pos = Len(fd_in)
    /\ fd_in_eof
    /\ rdrpc' = "done"
    /\ UNCHANGED <<mainVars, gdbq, stderr, fd_in, fd_in_pos, fd_in_eof,
                   fd_err, fd_err_pos, fd_err_eof, errpc>>

\* Lines 213-218: readline() returned "" at end of file; None is queued.
gdb_reader_eof ==
    /\ rdrpc = "readline"
    /\ fd_in_pos = Len(fd_in)
    /\ fd_in_eof
    /\ gdbq' = Append(gdbq, NoneMsg("stdout"))
    /\ rdrpc' = "done"
    /\ UNCHANGED <<mainVars, stderr, fd_in, fd_in_pos, fd_in_eof, fd_err,
                   fd_err_pos, fd_err_eof, errpc>>

----------------------------------------------------------------------------
(* gdb_stderr.run *)

\* Lines 189-192: the first readline() returned a line; it is relayed and the
\* thread goes on to the readline() of line 193.
gdb_stderr_first ==
    /\ errpc = "first"
    /\ fd_err_pos < Len(fd_err)
    /\ stderr' = Append(stderr, fd_err[fd_err_pos + 1])
    /\ fd_err_pos' = fd_err_pos + 1
    /\ errpc' = "next"
    /\ UNCHANGED <<mainVars, gdbq, fd_in, fd_in_pos, fd_in_eof, fd_err,
                   fd_err_eof, rdrpc>>

\* gdb_stderr_empty that queues a None before the thread ends.
gdb_stderr_empty_signals ==
    /\ errpc = "first"
    /\ fd_err_pos = Len(fd_err)
    /\ fd_err_eof
    /\ gdbq' = Append(gdbq, NoneMsg("stderr"))
    /\ errpc' = "done"
    /\ UNCHANGED <<mainVars, stderr, fd_in, fd_in_pos, fd_in_eof,
                   fd_err, fd_err_pos, fd_err_eof, rdrpc>>

\* Lines 189-190: the first readline() returned "": the thread ends.
gdb_stderr_empty ==
    /\ errpc = "first"
    /\ fd_err_pos = Len(fd_err)
    /\ fd_err_eof
    /\ errpc' = "done"
    /\ UNCHANGED <<mainVars, gdbq, stderr, fd_in, fd_in_pos, fd_in_eof,
                   fd_err, fd_err_pos, fd_err_eof, rdrpc>>

\* Lines 193-194, 190-192: the readline() of line 193 returned a line; None
\* is queued, then the line is relayed.
gdb_stderr_next ==
    /\ errpc = "next"
    /\ fd_err_pos < Len(fd_err)
    /\ gdbq' = Append(gdbq, NoneMsg("stderr"))
    /\ stderr' = Append(stderr, fd_err[fd_err_pos + 1])
    /\ fd_err_pos' = fd_err_pos + 1
    /\ UNCHANGED <<mainVars, fd_in, fd_in_pos, fd_in_eof, fd_err, fd_err_eof,
                   rdrpc, errpc>>

\* Lines 193-194, 190: the readline() of line 193 returned ""; None is
\* queued and the thread ends.
gdb_stderr_eof ==
    /\ errpc = "next"
    /\ fd_err_pos = Len(fd_err)
    /\ fd_err_eof
    /\ gdbq' = Append(gdbq, NoneMsg("stderr"))
    /\ errpc' = "done"
    /\ UNCHANGED <<mainVars, stderr, fd_in, fd_in_pos, fd_in_eof, fd_err,
                   fd_err_pos, fd_err_eof, rdrpc>>

----------------------------------------------------------------------------
(* gdb, the subprocess of line 46 *)

\* gdb closes its stdout (it exits, or is done with the stream).
gdb_close_stdout ==
    /\ gdb
    /\ ~fd_in_eof
    /\ fd_in_pos = Len(fd_in)
    /\ fd_in_eof' = TRUE
    /\ UNCHANGED <<mainVars, gdbq, stderr, fd_in, fd_in_pos, fd_err,
                   fd_err_pos, fd_err_eof, rdrpc, errpc>>

\* gdb closes its stderr.
gdb_close_stderr ==
    /\ gdb
    /\ ~fd_err_eof
    /\ fd_err_pos = Len(fd_err)
    /\ fd_err_eof' = TRUE
    /\ UNCHANGED <<mainVars, gdbq, stderr, fd_in, fd_in_pos, fd_in_eof,
                   fd_err, fd_err_pos, rdrpc, errpc>>

----------------------------------------------------------------------------
(* Specifications *)

Next ==
    \/ main_usage
    \/ main_start
    \/ main_break
    \/ main_line
    \/ gdb_reader_line
    \/ gdb_reader_eof
    \/ gdb_stderr_first
    \/ gdb_stderr_empty
    \/ gdb_stderr_next
    \/ gdb_stderr_eof
    \/ gdb_close_stdout
    \/ gdb_close_stderr

Spec == Init /\ [][Next]_vars

\* The three threads are scheduled fairly: a thread that can take its next
\* step eventually takes it.  The two readers are daemon threads (lines 186
\* and 210): they are owed no step once main() has returned and the process
\* exits.  gdb itself is under no such obligation.
FairSpec ==
    /\ Spec
    /\ WF_vars(main_usage \/ main_start \/ main_break \/ main_line)
    /\ WF_vars(pc # "done" /\ (gdb_reader_line \/ gdb_reader_eof))
    /\ WF_vars(pc # "done" /\ (gdb_stderr_first \/ gdb_stderr_empty
                                  \/ gdb_stderr_next \/ gdb_stderr_eof))

----------------------------------------------------------------------------
(* Histories the properties are stated on *)

Last(s) == s[Len(s)]

Range(s) == {s[i] : i \in 1..Len(s)}

\* Every message put on the Queue so far, in the order of the puts.
Queued == taken \o gdbq

IsLine(m) == ~m.none

FromStdout(m) == m.src = "stdout"

FromStderr(m) == m.src = "stderr"

\* The three shapes of a line, decided on the line as gdb wrote it.
IsFrame(text) == FrameMatch(StripPrompts(text)) # NoMatch

IsResult(text) == ~IsFrame(text) /\ rex3(StripPrompts(text)) # NoMatch

IsUnrecognized(text) == ~IsFrame(text) /\ ~IsResult(text)

FrameName(text) == FrameMatch(StripPrompts(text))[2]

IsResultMsg(m) == IsLine(m) /\ IsResult(m.text)

IsRecognizedMsg(m) == IsLine(m) /\ ~IsUnrecognized(m.text)

\* The texts of a sequence of line messages.
Texts(ms) == [i \in 1..Len(ms) |-> ms[i].text]

\* The result values main() has processed so far, in order.
ResultValues ==
    LET ms == SelectSeq(taken, IsResultMsg)
    IN  [i \in 1..Len(ms) |-> rex3(StripPrompts(ms[i].text))[1]]

\* The loop of main() run on a sequence of line texts from the state st.
RECURSIVE RunLines(_, _)
RunLines(st, texts) ==
    IF texts = <<>> THEN st
    ELSE RunLines(LoopBody(st, Head(texts)), Tail(texts))

\* The main loop ended on the None of the given reader.
EndedBy(src) == pc = "done" /\ retval = "None" /\ Last(taken).src = src

----------------------------------------------------------------------------
(* Properties *)

\* C1: the number of records printed is the number of complete triples of
\* result values processed so far, and the k-th record is the one built from
\* the (3k-2)-th, (3k-1)-th and 3k-th result value, in that order on stdout.
C1_OneRecordPerTriple ==
    /\ Len(stdout) = Len(ResultValues) \div 3
    /\ \A k \in 1..Len(stdout) :
           stdout[k] = FormatRecord(SubSeq(ResultValues, 3 * k - 2, 3 * k))

\* Two different records have been printed, one per triple.
C1_Witness ==
    /\ Len(stdout) = 2
    /\ stdout[1] # stdout[2]
    /\ Len(ResultValues) = 6

\* C2: lines that match none of the three shapes have no effect.  The state
\* of the loop after the lines taken so far is the state the loop reaches on
\* the same lines with every unrecognized line left out: same records, same
\* commands, same pl_frame and need_lno.  Two inputs that differ only in
\* inserted unrecognized lines have the same lines left, hence the same state.
C2_NoiseHasNoEffect ==
    gdb =>
        LoopState =
            RunLines([pl_frame |-> <<>>, need_lno |-> TRUE, stdout |-> <<>>,
                      stdin |-> SubSeq(stdin, 1, 2)],
                     Texts(SelectSeq(taken, IsRecognizedMsg)))

\* Unrecognized lines were taken between the result values of two records.
C2_Witness ==
    /\ Len(stdout) = 2
    /\ \E i, j, k \in 1..Len(taken) :
           /\ i < j /\ j < k
           /\ IsResultMsg(taken[i])
           /\ IsLine(taken[j]) /\ IsUnrecognized(taken[j].text)
           /\ IsResultMsg(taken[k])

\* C3: the step that ends the loop prints nothing, nothing is printed once
\* the loop has ended, and the printed records account for exactly three
\* result values each: values left in pl_frame at the end (1 or 2 of them)
\* appear in no record.
C3_NoPartialRecord ==
    /\ [][pc' = "done" => stdout' = stdout]_vars
    /\ [](/\ Len(pl_frame) <= 2
          /\ 3 * Len(stdout) + Len(pl_frame) = Len(ResultValues))

\* The loop ended on gdb_reader's None with two values collected and nothing
\* printed.
C3_Witness ==
    /\ EndedBy("stdout")
    /\ Len(pl_frame) = 2
    /\ Len(ResultValues) = 2
    /\ stdout = <<>>

\* C4: taking the None of gdb_stderr ends the loop in that very step without
\* writing a command or printing a record, and from then on main() takes
\* nothing from the Queue, writes no command and prints no record, whatever
\* is queued behind the None or put on the Queue later.
C4_AbortStopsAtOnce ==
    [][/\ (pc = "loop" /\ gdbq # <<>> /\ Head(gdbq).none /\ taken' # taken)
            => (pc' = "done" /\ UNCHANGED <<stdin, stdout, pl_frame, need_lno>>)
       /\ pc = "done"
            => UNCHANGED <<pc, taken, stdin, stdout, pl_frame, need_lno>>]_vars

\* The loop ended on the None of gdb_stderr while a stack frame line that
\* would have caused commands is queued behind it.
C4_Witness ==
    /\ EndedBy("stderr")
    /\ \E i \in 1..Len(gdbq) :
           /\ IsLine(gdbq[i])
           /\ IsFrame(gdbq[i].text)
           /\ FrameName(gdbq[i].text) = NameExecFunction

\* C5: whenever gdb_stderr waits for the next line of gdb's stderr after it
\* has relayed a diagnostic line, the None that makes main() abort is on the
\* Queue already: the put does not wait for a further readline() to return.
C5_AbortOnFirstDiagnostic ==
    (errpc = "next" /\ fd_err_pos >= 1) =>
        \E i \in 1..Len(Queued) : Queued[i].none /\ FromStderr(Queued[i])

\* C6: once gdb has closed its stdout the loop of main() ends, and a loop
\* that has ended took a None as its last message and no None before it.
C6_EndsOnEndOfStream ==
    /\ fd_in_eof ~> pc = "done"
    /\ [](pc = "done" /\ gdb =>
            /\ taken # <<>>
            /\ Last(taken).none
            /\ \A i \in 1..(Len(taken) - 1) : ~taken[i].none)

\* The loop ended on gdb_reader's None after several lines, and quit was
\* never written.
C6_Witness ==
    /\ EndedBy("stdout")
    /\ Len(taken) >= 3
    /\ TxtQuit \notin Range(stdin)

\* C7: the k-th printed line is fn_oid=<oid> lineno=<lineno> func=<signature>
\* where lineno is the first value of the k-th triple of result values, oid
\* the second, and signature is derived from the third.
C7_RecordShape ==
    \A k \in 1..Len(stdout) :
        k <= Len(ResultValues) \div 3 =>
            stdout[k] =
                TxtFnOid \o ResultValues[3 * k - 1]
                    \o TxtLineno \o ResultValues[3 * k - 2]
                    \o TxtFunc \o fn_signature(ResultValues[3 * k])
                    \o TxtNewline

\* The record of the one-level session has been printed from the values 7,
\* 16390 and FUNCTION foo(integer).
C7_Witness ==
    /\ fd_in = OneLevel
    /\ stdout = <<ScenarioRecord>>
    /\ Len(ResultValues) = 3

\* C8: what gdb_reader has put on the Queue is one message per line of gdb's
\* stdout read so far, in gdb's order, followed by one None exactly when the
\* thread has ended, which it does only at end of file; the lines main() has
\* taken are therefore an initial part of gdb's stdout, in order, wherever
\* the None of gdb_stderr got in between.
C8_StdoutOrder ==
    LET S == SelectSeq(Queued, FromStdout)
        T == SelectSeq(taken, IsLine)
    IN  /\ Len(S) = fd_in_pos + (IF rdrpc = "done" THEN 1 ELSE 0)
        /\ \A i \in 1..Len(S) : i <= fd_in_pos => S[i] = LineMsg(fd_in[i])
        /\ rdrpc = "done" =>
               /\ Last(S).none
               /\ fd_in_pos = Len(fd_in)
               /\ fd_in_eof
        /\ \A i \in 1..Len(T) : T[i] = LineMsg(fd_in[i])

\* gdb_reader has ended, and a None of gdb_stderr sits between two of its
\* lines.
C8_Witness ==
    /\ rdrpc = "done"
    /\ \E i, j, k \in 1..Len(Queued) :
           /\ i < j /\ j < k
           /\ IsLine(Queued[i])
           /\ FromStderr(Queued[j])
           /\ IsLine(Queued[k])
           /\ Queued[i] # Queued[k]

\* C9: the iteration on a stack frame line of main() writes quit, and only
\* quit, leaves pl_frame and need_lno as they are and stays in the loop; and
\* the one-level session, once it ended on gdb_reader's None, has written
\* quit and printed exactly the record fn_oid=16390 lineno=7
\* func=foo(integer).
C9_MainFrameQuits ==
    /\ [][(/\ pc = "loop"
           /\ gdbq # <<>>
           /\ IsLine(Head(gdbq))
           /\ IsFrame(Head(gdbq).text)
           /\ FrameName(Head(gdbq).text) = NameMain
           /\ taken' # taken)
            => /\ stdin' = Append(stdin, TxtQuit)
               /\ UNCHANGED <<pl_frame, need_lno, stdout>>
               /\ pc' = "loop"]_vars
    /\ []((fd_in = OneLevel /\ EndedBy("stdout")) =>
            /\ stdout = <<ScenarioRecord>>
            /\ TxtQuit \in Range(stdin))

\* After the frame of main() was processed, with need_lno FALSE at the time,
\* the loop went on and completed a record.
C9_Witness ==
    /\ pc = "loop"
    /\ ~need_lno
    /\ Len(stdout) >= 1
    /\ \E i, j \in 1..Len(taken) :
           /\ i < j
           /\ IsLine(taken[i])
           /\ IsFrame(taken[i].text)
           /\ FrameName(taken[i].text) = NameMain
           /\ IsResultMsg(taken[j])

\* C10: with an argument count other than one (len(sys.argv) other than 2)
\* gdb is never spawned, no reader is started, nothing is written to gdb or
\* queued, and main() ends with the usage message on stderr and status 2.
C10_UsageError ==
    Len(argv) # 2 =>
        /\ ~gdb
        /\ rdrpc = "unstarted"
        /\ errpc = "unstarted"
        /\ stdin = <<>>
        /\ gdbq = <<>>
        /\ pc = "done" =>
               /\ stderr = <<UsageText>>
               /\ ExitStatus(retval) = 2

\* main() has returned for a command line with two arguments.
C10_Witness ==
    /\ Len(argv) = 3
    /\ pc = "done"
    /\ retval = "2"

\* C11: a run whose loop ended on the None of gdb_stderr exits with a status
\* that is neither 0, the status of a run that ended on gdb_reader's None,
\* nor 2, the status of the usage error.
C11_AbortStatusDistinct ==
    EndedBy("stderr") => ExitStatus(retval) \notin {0, 2}

\* The print commands written to gdb.stdin so far, in order.
IsPrint(cmd) == cmd \in {TxtPrintLineno, TxtPrintOid, TxtPrintSignature}

Prints == SelectSeq(stdin, IsPrint)

\* C12: the print commands written to gdb are repetitions of the fixed order
\* p stmt->lineno, p func->fn_oid, p func->fn_signature: every fn_oid and
\* fn_signature pair comes right after exactly one lineno print.
C12_PrintOrder ==
    \A i \in 1..Len(Prints) :
        Prints[i] =
            <<TxtPrintLineno, TxtPrintOid, TxtPrintSignature>>[((i - 1) % 3) + 1]

\* The head of the Queue is a stack frame line of the function name, and this
\* step of main() takes it.
TakesFrame(name) ==
    /\ pc = "loop"
    /\ gdbq # <<>>
    /\ IsLine(Head(gdbq))
    /\ IsFrame(Head(gdbq).text)
    /\ FrameName(Head(gdbq).text) = name
    /\ taken' # taken

\* C13: need_lno is FALSE exactly when the last print command written is the
\* lineno print (one was written since the last function or trigger frame,
\* or since the start); no lineno print follows another without a function
\* or trigger frame in between; an exec_stmt frame taken while need_lno is
\* FALSE writes nothing and changes nothing, and one taken while need_lno is
\* TRUE writes select-frame and the lineno print.
C13_LinenoOncePerLevel ==
    /\ [](gdb =>
            /\ ~need_lno <=>
                   (Prints # <<>> /\ Last(Prints) = TxtPrintLineno)
            /\ \A i \in 1..(Len(Prints) - 1) :
                   Prints[i] = TxtPrintLineno => Prints[i + 1] # TxtPrintLineno)
    /\ [][TakesFrame(NameExecStmt) =>
            IF need_lno
            THEN /\ Len(stdin') = Len(stdin) + 2
                 /\ Last(stdin') = TxtPrintLineno
                 /\ ~need_lno'
                 /\ UNCHANGED <<pl_frame, stdout, pc>>
            ELSE UNCHANGED <<stdin, need_lno, pl_frame, stdout, pc>>]_vars

\* Two exec_stmt frames were taken in a row and only the first one wrote the
\* lineno print.
C13_Witness ==
    /\ Len(taken) >= 2
    /\ \A i \in {Len(taken) - 1, Len(taken)} :
           /\ IsLine(taken[i])
           /\ IsFrame(taken[i].text)
           /\ FrameName(taken[i].text) = NameExecStmt
    /\ Len(Prints) = 1
    /\ ~need_lno

\* C14: between the iterations of the loop pl_frame holds at most 2 values,
\* and within an iteration at most 3: the value appended by the iteration on
\* a result line makes 3 at most, and when it makes 3 the record is printed
\* and pl_frame is empty again at the end of that iteration.
C14_AtMostThreeValues ==
    /\ Len(pl_frame) <= 2
    /\ \A i \in 1..Len(gdbq) :
           IsResultMsg(gdbq[i]) =>
               LET pl == Collect(pl_frame, Matches[gdbq[i].text].value[1])
               IN  /\ Len(pl) <= 3
                   /\ Len(pl) = 3 =>
                          LoopBody(LoopState, gdbq[i].text).pl_frame = <<>>

\* The third value has just been taken: a record is printed and pl_frame is
\* empty.
C14_Witness ==
    /\ taken # <<>>
    /\ IsResultMsg(Last(taken))
    /\ Len(ResultValues) = 3
    /\ Len(stdout) = 1
    /\ pl_frame = <<>>

\* The value with its first whitespace-delimited token discarded: what
\* follows the first whitespace character after the token, and nothing when
\* the value is a single token.
DiscardFirstToken(raw) ==
    LET token == {i \in 1..Len(raw) : raw[i] \notin Whitespace}
        ends == {i \in 1..Len(raw) :
                    /\ raw[i] \in Whitespace
                    /\ \E j \in token : j < i}
    IN  IF ends = {} THEN <<>>
        ELSE SubSeq(raw, (CHOOSE i \in ends : \A j \in ends : i <= j) + 1,
                    Len(raw))

\* The value from the character after its first blank on, and the whole
\* value when it holds no blank.
AfterFirstBlank(raw) ==
    IF \E i \in 1..Len(raw) : raw[i] = " "
    THEN SubSeq(raw,
                (CHOOSE i \in 1..Len(raw) :
                    raw[i] = " " /\ \A j \in 1..(i - 1) : raw[j] # " ") + 1,
                Len(raw))
    ELSE raw

\* The record printed for the k-th triple of result values ends in func= and
\* the signature sig.
FuncIs(k, sig) ==
    /\ Len(stdout[k]) > Len(sig)
    /\ SubSeq(stdout[k], Len(stdout[k]) - Len(sig) - Len(TxtFunc),
              Len(stdout[k])) = TxtFunc \o sig \o TxtNewline

\* C15 as claimed: the printed signature is the third value of the triple
\* with its first whitespace-delimited token discarded, also when the value
\* is a single token (then it is empty).
C15_FirstTokenDiscarded ==
    \A k \in 1..Len(stdout) :
        FuncIs(k, DiscardFirstToken(ResultValues[3 * k]))

\* C15 as amended: the printed signature is the third value of the triple
\* from the character after its first blank on, and the whole value when it
\* holds no blank.
C15_SignatureAfterFirstBlank ==
    \A k \in 1..Len(stdout) :
        FuncIs(k, AfterFirstBlank(ResultValues[3 * k]))

\* Two records have been printed, one from a signature without a blank and
\* one from a signature with a blank.
C15_Witness ==
    /\ Len(stdout) = 2
    /\ \E k \in 1..2 : \A i \in 1..Len(ResultValues[3 * k]) :
           ResultValues[3 * k][i] # " "
    /\ \E k \in 1..2 : \E i \in 1..Len(ResultValues[3 * k]) :
           ResultValues[3 * k][i] = " "

\* The line without its leading whitespace and (gdb) markers, however many
\* of either and in whatever order.
RECURSIVE WithoutPrompts(_)
WithoutPrompts(text) ==
    IF text # <<>> /\ text[1] \in Whitespace
    THEN WithoutPrompts(Tail(text))
    ELSE IF Prefix(text, 5) = TxtPrompt
    THEN WithoutPrompts(Slice(text, 5))
    ELSE text

\* The classification of a line: the groups of its stack frame match and of
\* its value match.
Classification(text) ==
    [frame |-> Match(text).frame,
     value |-> IF Match(text).frame = NoMatch THEN Match(text).value
               ELSE NoMatch]

\* C16: a line with leading (gdb) markers and whitespace around them is
\* classified as the line without them is.
C16_PromptsIgnored ==
    \A i \in 1..Len(taken) :
        IsLine(taken[i]) =>
            Classification(taken[i].text) =
                Classification(WithoutPrompts(taken[i].text))

\* C17: once quit has been written to gdb's stdin, nothing more is written
\* to it.
C17_NothingAfterQuit ==
    [][(TxtQuit \in Range(stdin)) => stdin' = stdin]_vars

\* A line gdb has written to its stdout, resp. stderr, that the reader of the
\* stream has not read yet.
PendingOut == gdb /\ fd_in_pos < Len(fd_in)

PendingErr == gdb /\ fd_err_pos < Len(fd_err)

\* C18: a reader with a pending line on its stream can always take its step,
\* whatever the Queue holds and wherever the other reader and the main loop
\* are; every line read from stdout is on the Queue or was taken from it; and
\* as long as the process lives every pending line is eventually read.
C18_ReadersNeverBlock ==
    /\ [](PendingOut => rdrpc = "readline" /\ ENABLED gdb_reader_line)
    /\ [](PendingErr =>
            \/ errpc = "first" /\ ENABLED gdb_stderr_first
            \/ errpc = "next" /\ ENABLED gdb_stderr_next)
    /\ [](Len(SelectSeq(Queued, FromStdout)) =
            fd_in_pos + (IF rdrpc = "done" THEN 1 ELSE 0))
    /\ (PendingOut ~> (~PendingOut \/ pc = "done"))
    /\ (PendingErr ~> (~PendingErr \/ pc = "done"))

\* Both readers have pushed while the main loop, three messages behind, has
\* written commands.
C18_Witness ==
    /\ pc = "loop"
    /\ Len(gdbq) >= 3
    /\ Len(stdin) > 2
    /\ \E i \in 1..Len(gdbq) : FromStderr(gdbq[i])
    /\ \E i \in 1..Len(gdbq) : IsLine(gdbq[i])

\* This step of main() takes the line at the head of the Queue.
TakesHead ==
    /\ pc = "loop"
    /\ gdbq # <<>>
    /\ IsLine(Head(gdbq))
    /\ taken' # taken

\* The function names a stack frame line makes main() act on.
ActedNames == {NameExecStmt, NameExecFunction, NameExecTrigger, NameMain}

\* C19: a stack frame line leaves pl_frame and the standard output as they
\* are, a value line leaves need_lno and gdb's stdin as they are, and a stack
\* frame line of any other function changes nothing of the loop's state.
C19_DisjointUpdates ==
    [][TakesHead =>
          /\ IsFrame(Head(gdbq).text) => UNCHANGED <<pl_frame, stdout>>
          /\ IsResult(Head(gdbq).text) => UNCHANGED <<need_lno, stdin>>
          /\ (IsFrame(Head(gdbq).text)
                /\ FrameName(Head(gdbq).text) \notin ActedNames) =>
                 UNCHANGED <<pl_frame, need_lno, stdout, stdin, pc>>]_vars

\* A value completed a record while need_lno was FALSE, after frames of
\* exec_stmt, of plpgsql_exec_function and of another function were taken,
\* the last of them with a value pending.
C19_Witness ==
    /\ taken # <<>>
    /\ IsResultMsg(Last(taken))
    /\ ~need_lno
    /\ Len(stdout) >= 1
    /\ \E i \in 1..Len(taken) :
          IsLine(taken[i]) /\ IsFrame(taken[i].text)
              /\ FrameName(taken[i].text) = NameExecFunction
    /\ \E i, j \in 1..Len(taken) :
          /\ i < j
          /\ IsResultMsg(taken[i])
          /\ IsLine(taken[j]) /\ IsFrame(taken[j].text)
          /\ FrameName(taken[j].text) \notin ActedNames

\* C20: when gdb writes nothing to its stderr, gdb_stderr puts nothing on the
\* Queue, the only None ever queued is the one of gdb_reader, and a loop that
\* has ended has taken every line of gdb's stdout, in order, before that None.
C20_SilentStderr ==
    (gdb /\ fd_err = <<>>) =>
        /\ \A i \in 1..Len(Queued) : ~FromStderr(Queued[i])
        /\ \A i \in 1..Len(Queued) : Queued[i].none => i = Len(fd_in) + 1
        /\ stderr = <<>>
        /\ pc = "done" =>
              /\ EndedBy("stdout")
              /\ Len(taken) = Len(fd_in) + 1
              /\ \A i \in 1..Len(fd_in) :
                    IsLine(taken[i]) /\ taken[i].text = fd_in[i]

\* gdb closed its empty stderr, gdb_stderr ended, and the loop ended on
\* gdb_reader's None after taking the lines of a whole session.
C20_Witness ==
    /\ fd_err = <<>>
    /\ fd_err_eof
    /\ errpc = "done"
    /\ EndedBy("stdout")
    /\ Len(fd_in) >= 3
    /\ stdout # <<>>

====
